---- MODULE Spec2Model ----
(***************************************************************************)
(* Model of src/python/python/chi2.py: Pearson's chi-square goodness of    *)
(* fit test (class ChiSquareTest) and its parameter domains (LineDomain,   *)
(* PlanarDomain, SphericalDomain).                                         *)
(*                                                                         *)
(* Floating point values are modelled as exact rationals <<n, d>> with     *)
(* d > 0 in lowest terms; rounding is not modelled.  The p-value, which    *)
(* may be non-finite, carries a kind tag next to its rational value.       *)
(***************************************************************************)
EXTENDS Integers, Sequences, FiniteSets, TLC

(***************************************************************************)
(* Bounds of the model                                                     *)
(***************************************************************************)
MaxRes == 3
MaxIres == 3
MaxSampleCount == 2
MaxCells == 5

(***************************************************************************)
(* Exact rational arithmetic                                               *)
(***************************************************************************)
Abs(n) == IF n < 0 THEN -n ELSE n

RECURSIVE GCD(_, _)
GCD(a, b) == IF b = 0 THEN a ELSE GCD(b, a % b)

Q(n, d) ==
    LET g == GCD(Abs(n), Abs(d))
        s == IF d < 0 THEN -1 ELSE 1
    IN  << (s * n) \div g, (s * d) \div g >>

QInt(n) == << n, 1 >>
QZero == << 0, 1 >>
QOne == << 1, 1 >>
QAdd(a, b) == Q(a[1] * b[2] + b[1] * a[2], a[2] * b[2])
QSub(a, b) == Q(a[1] * b[2] - b[1] * a[2], a[2] * b[2])
QMul(a, b) == Q(a[1] * b[1], a[2] * b[2])
QDiv(a, b) == Q(a[1] * b[2], a[2] * b[1])
QNeg(a) == << -a[1], a[2] >>
QLt(a, b) == a[1] * b[2] < b[1] * a[2]
QLe(a, b) == a[1] * b[2] <= b[1] * a[2]
QMin(a, b) == IF QLt(b, a) THEN b ELSE a
QMax(a, b) == IF QLt(a, b) THEN b ELSE a
\* conversion of a float to an integer type: truncation toward zero
QTrunc(a) == IF a[1] >= 0 THEN a[1] \div a[2] ELSE -((-a[1]) \div a[2])
IMax(a, b) == IF a < b THEN b ELSE a

\* the element of a one-element set
Only(S) == CHOOSE x \in S : TRUE

\* a sequence with its elements evaluated
Strict(s) == << >> \o s

RECURSIVE QSumSeq(_)
QSumSeq(s) == IF s = << >> THEN QZero ELSE QAdd(Head(s), QSumSeq(Tail(s)))

RECURSIVE QMinSeq(_)
QMinSeq(s) == IF Len(s) = 1 THEN s[1] ELSE QMin(s[1], QMinSeq(Tail(s)))

(***************************************************************************)
(* Domains                                                                 *)
(***************************************************************************)
\* rational stand-in for ek.pi in the bounds of SphericalDomain
Pi == Q(22, 7)

Box(x0, y0, x1, y1) == [min |-> [x |-> x0, y |-> y0], max |-> [x |-> x1, y |-> y1]]

Extents(b) == [x |-> QSub(b.max.x, b.min.x), y |-> QSub(b.max.y, b.min.y)]

LineDomain(lo, hi) ==
    [kind |-> "line", bounds |-> Box(lo, Q(-1, 2), hi, Q(1, 2))]

PlanarDomain(b) == [kind |-> "planar", bounds |-> b]

SphericalDomain == [kind |-> "sphere", bounds |-> Box(QNeg(Pi), QInt(-1), Pi, QOne)]

\* aspect() of the three domains
Aspect(dom) ==
    CASE dom.kind = "line" -> QZero
      [] dom.kind = "planar" -> QDiv(Extents(dom.bounds).x, Extents(dom.bounds).y)
      [] dom.kind = "sphere" -> QInt(2)

VARIABLES pc, args, domain, sample_func, pdf_func, sample_count, res, ires,
          bounds, pdf, histogram, p_value, fail, last, chi2_io

vars == << pc, args, domain, sample_func, pdf_func, sample_count, res, ires,
           bounds, pdf, histogram, p_value, fail, last, chi2_io >>

config == << domain, sample_func, pdf_func, sample_count, res, ires, bounds >>

None == << >>
NoPValue == [kind |-> "none", v |-> QZero]
NoChi2 == [obs |-> << >>, exp |-> << >>, cells |-> 0, dof |-> 0, dof_low |-> FALSE]
NoBox == Box(QZero, QZero, QZero, QZero)

\* what the last operation did (observation only; the program does not read it)
NoLast ==
    [op |-> "none", xy |-> << >>, weights |-> << >>, index |-> << >>,
     nodes |-> << >>, pdf_sum |-> QZero, logged |-> {},
     tab_hist |-> FALSE, tab_pdf |-> FALSE, fail_before |-> FALSE,
     alpha |-> QZero, dof |-> 0, result |-> "none"]

Init ==
    /\ pc = "new"
    /\ args = [res |-> 0, ires |-> 0]
    /\ domain = [kind |-> "none", bounds |-> NoBox]
    /\ sample_func = [points |-> << >>, weights |-> << >>]
    /\ pdf_func = [kind |-> "none", c |-> QZero]
    /\ sample_count = 0
    /\ res = [x |-> 0, y |-> 0]
    /\ ires = 0
    /\ bounds = NoBox
    /\ pdf = None
    /\ histogram = None
    /\ p_value = NoPValue
    /\ fail = FALSE
    /\ last = NoLast
    /\ chi2_io = NoChi2

(***************************************************************************)
(* ChiSquareTest.__init__                                                  *)
(***************************************************************************)
\* the two argument checks that raise
ResIsEven(r) == r % 2 = 0
IresTooSmall(ir) == ir < 2

\* GridRes without the lower bound of 1
GridResUnclamped(r, dom) ==
    [x |-> r, y |-> QTrunc(QMul(QInt(r), Aspect(dom)))]

\* ek.max(ScalarVector2u(res, int(res * domain.aspect())), 1)
GridRes(r, dom) ==
    [x |-> IMax(r, 1), y |-> IMax(QTrunc(QMul(QInt(r), Aspect(dom))), 1)]

\* ScalarVector2u holds unsigned components: a negative one is not converted
FitsUnsigned(r, dom) == r >= 0 /\ QTrunc(QMul(QInt(r), Aspect(dom))) >= 0

Raises(r, ir, dom) == ResIsEven(r) \/ IresTooSmall(ir) \/ ~FitsUnsigned(r, dom)

Construct(dom, sf, pf, sc, r, ir) ==
    /\ pc = "new"
    /\ args' = [res |-> r, ires |-> ir]
    /\ IF Raises(r, ir, dom)
       THEN /\ pc' = "raised"
            /\ last' = [NoLast EXCEPT !.op = "raise"]
            /\ UNCHANGED << config, pdf, histogram, p_value, fail, chi2_io >>
       ELSE /\ pc' = "ready"
            /\ domain' = dom
            /\ sample_func' = sf
            /\ pdf_func' = pf
            /\ sample_count' = sc
            /\ res' = GridRes(r, dom)
            /\ ires' = ir
            /\ bounds' = dom.bounds
            /\ pdf' = None
            /\ histogram' = None
            /\ p_value' = NoPValue
            /\ fail' = FALSE
            /\ last' = [NoLast EXCEPT !.op = "init"]
            /\ UNCHANGED chi2_io

(***************************************************************************)
(* ChiSquareTest.tabulate_histogram                                        *)
(***************************************************************************)
\* 1e-4, the relative tolerance of the domain check
Tolerance == Q(1, 10000)

Eps(b) == [x |-> QMul(Extents(b).x, Tolerance), y |-> QMul(Extents(b).y, Tolerance)]

Mid(b) == [x |-> QDiv(QAdd(b.min.x, b.max.x), QInt(2)),
           y |-> QDiv(QAdd(b.min.y, b.max.y), QInt(2))]

\* ek.atan2(y, x) on the axis directions, in terms of Pi
Atan2(y, x) ==
    CASE y = 0 /\ x >= 0 -> QZero
      [] y = 0 /\ x < 0  -> Pi
      [] y > 0 /\ x = 0  -> QDiv(Pi, QInt(2))
      [] y < 0 /\ x = 0  -> QNeg(QDiv(Pi, QInt(2)))

\* domain.map_backward: from the target domain to the parameter rectangle
MapBackward(dom, p) ==
    CASE dom.kind = "line"   -> [x |-> p.x, y |-> QZero]
      [] dom.kind = "planar" -> [x |-> p.x, y |-> p.y]
      [] dom.kind = "sphere" -> [x |-> Atan2(p.y, p.x), y |-> QInt(-p.z)]

\* the values sample_func may return for one sample, per domain
SamplePoints(dom) ==
    LET b == dom.bounds
        e == Eps(b)
        m == Mid(b)
        two == QInt(2)
    IN  CASE dom.kind = "line" ->
               { [x |-> QSub(b.min.x, QMul(two, e.x))],
                 [x |-> QSub(b.min.x, e.x)],
                 [x |-> m.x],
                 [x |-> QAdd(b.max.x, e.x)] }
          [] dom.kind = "planar" ->
               { [x |-> QSub(b.min.x, e.x), y |-> QSub(b.min.y, e.y)],
                 [x |-> m.x, y |-> m.y],
                 [x |-> QAdd(b.max.x, e.x), y |-> b.max.y],
                 [x |-> m.x, y |-> QAdd(b.max.y, QMul(two, e.y))] }
          [] dom.kind = "sphere" ->
               { [x |-> 1, y |-> 0, z |-> 0],
                 [x |-> -1, y |-> 0, z |-> 0],
                 [x |-> 0, y |-> 0, z |-> 1],
                 [x |-> 0, y |-> 0, z |-> 2] }

\* InDomain without the tolerance
InDomainExact(b, p) ==
    /\ QLe(b.min.x, p.x) /\ QLe(p.x, b.max.x)
    /\ QLe(b.min.y, p.y) /\ QLe(p.y, b.max.y)

\* one sample of the sanity check: inside [min - eps, max + eps] on both axes
InDomain(b, p) ==
    LET e == Eps(b)
    IN  /\ QLe(QSub(b.min.x, e.x), p.x) /\ QLe(p.x, QAdd(b.max.x, e.x))
        /\ QLe(QSub(b.min.y, e.y), p.y) /\ QLe(p.y, QAdd(b.max.y, e.y))

\* ek.clamp(v, lo, hi)
QClamp(v, lo, hi) == QMax(QMin(v, hi), lo)

\* Vector2u(ek.clamp((xy - min) / extents * res, 0, res - 1))
CellOf(b, r, p) ==
    LET ex == Extents(b)
        nx == QDiv(QSub(p.x, b.min.x), ex.x)
        ny == QDiv(QSub(p.y, b.min.y), ex.y)
    IN  [x |-> QTrunc(QClamp(QMul(nx, QInt(r.x)), QZero, QInt(r.x - 1))),
         y |-> QTrunc(QClamp(QMul(ny, QInt(r.y)), QZero, QInt(r.y - 1)))]

\* index = xy.x + xy.y * self.res.x
FlatIndex(r, c) == c.x + c.y * r.x

\* ek.hprod(self.res)
CellCount(r) == r.x * r.y

\* AddAt as a plain store: target[index] = source
StoreAt(target, i, w) == [target EXCEPT ![i + 1] = w]

\* one addition of the scatter: target[index] += source
AddAt(target, i, w) == [target EXCEPT ![i + 1] = QAdd(@, w)]

\* ek.scatter_add(target, index, source), the additions taken in the given order
RECURSIVE ScatterAdd(_, _, _, _)
ScatterAdd(target, index, source, order) ==
    IF order = << >> THEN target
    ELSE ScatterAdd(AddAt(target, index[Head(order)], source[Head(order)]),
                    index, source, Tail(order))

Zero(n) == Strict([i \in 1..n |-> QZero])


\* FlagAfter as an assignment of the outcome of the check
FlagAssigned(old, raised) == raised

\* self.fail = True never clears the flag: the flag after a check
FlagAfter(old, raised) == old \/ raised

\* the checks of tabulate_histogram
HistogramNegative(h) == ~QLe(QZero, QMinSeq(h))
SlackFactor == Q(11, 10)
HistogramTooHeavy(h, sc) == QLt(SlackFactor, QDiv(QSumSeq(h), QInt(sc)))

\* weights_out: the second component of a tuple, else Float(1.0)
WeightsOut(sf) ==
    IF sf.weights # << >> THEN sf.weights
    ELSE Strict([i \in 1..Len(sf.points) |-> QOne])

\* what tabulate_histogram computes from the values sample_func returns and
\* the order in which the scatter takes the additions
HistogramChecks(b, sc, xy, index, weights, h) ==
    LET outside == \E i \in 1..Len(xy) : ~InDomain(b, xy[i])
        logged == (IF outside THEN {"outside"} ELSE {})
                  \cup (IF HistogramNegative(h) THEN {"negative_weight"} ELSE {})
                  \cup (IF HistogramTooHeavy(h, sc) THEN {"weight_sum"} ELSE {})
    IN  [histogram |-> h, xy |-> xy, index |-> index, weights |-> weights,
         logged |-> logged, fail |-> logged # {}]

HistogramOf(dom, b, r, sc, sf, order) ==
    Only({ HistogramChecks(b, sc, xy, index, w, h) :
           xy \in { Strict([i \in 1..Len(sf.points) |->
                               MapBackward(dom, sf.points[i])]) },
           index \in { Strict([i \in 1..Len(sf.points) |->
                          FlatIndex(r, CellOf(b, r, MapBackward(dom, sf.points[i])))]) },
           w \in { WeightsOut(sf) },
           h \in { ScatterAdd(Zero(CellCount(r)),
                      Strict([i \in 1..Len(sf.points) |->
                          FlatIndex(r, CellOf(b, r, MapBackward(dom, sf.points[i])))]),
                      WeightsOut(sf), order) } })

\* the orders in which n additions can be taken
Orders(n) == { o \in [1..n -> 1..n] : \A i, j \in 1..n : i # j => o[i] # o[j] }

TabulateHistogram(order) ==
    /\ pc = "ready"
    /\ \E t \in { HistogramOf(domain, bounds, res, sample_count, sample_func, order) } :
           /\ histogram' = t.histogram
           /\ fail' = FlagAfter(fail, t.fail)
           /\ last' = [NoLast EXCEPT !.op = "tabulate_histogram", !.xy = t.xy,
                          !.weights = t.weights, !.index = t.index,
                          !.logged = t.logged, !.tab_hist = TRUE,
                          !.fail_before = fail]
    /\ UNCHANGED << pc, args, config, pdf, p_value, chi2_io >>

(***************************************************************************)
(* ChiSquareTest.tabulate_pdf                                              *)
(***************************************************************************)
\* element i of ek.linspace(Float, a, b, n), n >= 2
Linspace(a, b, n, i) == QAdd(a, QMul(QInt(i), QDiv(QSub(b, a), QInt(n - 1))))

\* lower corner of column or row i: linspace(min, max - 1/res, res)[i];
\* with a single cell on the axis the corner is the lower bound
Corner(lo, hi, n, i) ==
    IF n = 1 THEN lo ELSE Linspace(lo, QSub(hi, Q(1, n)), n, i)

\* nx[k] = linspace(0, 1, ires)[k] / res
Offset(ir, n, k) == QDiv(Linspace(QZero, QOne, ir, k), QInt(n))

\* the k-th quadrature node of column or row i
Node(lo, hi, n, ir, i, k) == QAdd(Corner(lo, hi, n, i), Offset(ir, n, k))

\* wx[k]: 1 / ((ires - 1) * res), halved at both ends
Weight(ir, n, k) ==
    IF k = 0 \/ k = ir - 1 THEN Q(1, 2 * (ir - 1) * n) ELSE Q(1, (ir - 1) * n)

\* domain.map_forward; of the point on the sphere only the z component,
\* which needs no sincos, is kept
MapForward(dom, p) ==
    CASE dom.kind = "line"   -> [u |-> p.x]
      [] dom.kind = "planar" -> [u |-> p.x, v |-> p.y]
      [] dom.kind = "sphere" -> [u |-> QNeg(p.y)]

\* pdf_func: constant, or a step in the first coordinate of the point (the z
\* coordinate on the sphere)
StepAt == Q(1, 2)
PdfEval(f, q) ==
    IF f.kind = "const" THEN f.c
    ELSE IF QLe(StepAt, q.u) THEN f.c ELSE QZero

\* the nodes along one axis, one tuple of ires nodes per column or row
Nodes(lo, hi, n, ir) ==
    Strict([i \in 1..n |-> Strict([k \in 1..ir |-> Node(lo, hi, n, ir, i - 1, k - 1)])])
Weights(ir, n) == Strict([k \in 1..ir |-> Weight(ir, n, k - 1)])

\* the integral over cell c: sum over (yi, xi) of pdf * wx[xi] * wy[yi]
CellIntegral(f, dom, xs, ys, wx, wy, r, ir, c) ==
    LET ix == c % r.x
        iy == c \div r.x
        term(yi, xi) ==
            QMul(PdfEval(f, MapForward(dom, [x |-> xs[ix + 1][xi + 1],
                                             y |-> ys[iy + 1][yi + 1]])),
                 QMul(wx[xi + 1], wy[yi + 1]))
    IN  QSumSeq([j \in 1..(ir * ir) |-> term((j - 1) \div ir, (j - 1) % ir)])

\* the checks of tabulate_pdf
PdfNegative(t) == ~QLe(QZero, QMinSeq(t))
PdfTooHeavy(t, sc) == QLt(QMul(SlackFactor, QInt(sc)), QSumSeq(t))

\* self.pdf *= self.sample_count * ek.hprod(self.bounds.extents())
Scaled(t, sc, b) ==
    Strict([i \in 1..Len(t) |->
               QMul(t[i], QMul(QInt(sc), QMul(Extents(b).x, Extents(b).y)))])

PdfChecks(integral, sc, b) ==
    LET logged == (IF PdfNegative(integral) THEN {"negative_pdf"} ELSE {})
                  \cup (IF PdfTooHeavy(integral, sc) THEN {"pdf_sum"} ELSE {})
    IN  [pdf |-> Scaled(integral, sc, b), pdf_sum |-> QSumSeq(integral),
         logged |-> logged, fail |-> logged # {}]

PdfTable(integral, sc, b) == Only({ PdfChecks(t, sc, b) : t \in { integral } })

PdfOf(f, dom, b, r, ir, sc) ==
    Only({ PdfTable(Strict([i \in 1..CellCount(r) |->
                         CellIntegral(f, dom, xs, ys, wx, wy, r, ir, i - 1)]), sc, b) :
           xs \in { Nodes(b.min.x, b.max.x, r.x, ir) },
           ys \in { Nodes(b.min.y, b.max.y, r.y, ir) },
           wx \in { Weights(ir, r.x) },
           wy \in { Weights(ir, r.y) } })

TabulatePdf ==
    /\ pc = "ready"
    /\ \E t \in { PdfOf(pdf_func, domain, bounds, res, ires, sample_count) } :
           /\ pdf' = t.pdf
           /\ fail' = FlagAfter(fail, t.fail)
           /\ last' = [NoLast EXCEPT !.op = "tabulate_pdf", !.logged = t.logged,
                          !.nodes = Nodes(bounds.min.x, bounds.max.x, res.x, ires),
                          !.pdf_sum = t.pdf_sum, !.tab_pdf = TRUE,
                          !.fail_before = fail]
    /\ UNCHANGED << pc, args, config, histogram, p_value, chi2_io >>

(***************************************************************************)
(* mitsuba.core.math.chi2 and mitsuba.python.math.rlgamma                  *)
(***************************************************************************)
PoolingThreshold == 5

\* the walk of the evaluator: every cell is added to the pooled bucket; when
\* the pooled expected count reaches the threshold the bucket is emitted as
\* one effective cell and reset.  A bucket left over at the end is merged into
\* the last emitted cell; when nothing was emitted it is the only cell.
RECURSIVE Pool(_, _, _, _, _, _)
Pool(obs, exp, thresh, i, acc, groups) ==
    IF i > Len(exp)
    THEN IF acc.n = 0 THEN groups
         ELSE IF groups = << >> THEN << acc >>
         ELSE [groups EXCEPT ![Len(groups)] =
                  [o |-> QAdd(@.o, acc.o), e |-> QAdd(@.e, acc.e), n |-> @.n + acc.n]]
    ELSE LET b == [o |-> QAdd(acc.o, obs[i]), e |-> QAdd(acc.e, exp[i]), n |-> acc.n + 1]
         IN  IF QLe(thresh, b.e)
             THEN Pool(obs, exp, thresh, i + 1, [o |-> QZero, e |-> QZero, n |-> 0],
                       Append(groups, b))
             ELSE Pool(obs, exp, thresh, i + 1, b, groups)

\* (observed - expected)^2 / expected of one effective cell
Chi2Term(g) ==
    IF QLt(QZero, g.e) THEN QDiv(QMul(QSub(g.o, g.e), QSub(g.o, g.e)), g.e) ELSE QZero

\* chi2(observed, expected, threshold) on arrays sorted by expected count
Chi2Of(groups) ==
    LET pooled == { k \in 1..Len(groups) : groups[k].n > 1 }
    IN  [chi2val |-> QSumSeq([k \in 1..Len(groups) |-> Chi2Term(groups[k])]),
         dof |-> Len(groups) - 1,
         cells |-> Len(groups),
         pooled_in |-> QSumSeq([k \in 1..Len(groups) |->
                          IF k \in pooled THEN QInt(groups[k].n) ELSE QZero])[1],
         pooled_out |-> Cardinality(pooled)]

Chi2(obs, exp, thresh) ==
    Only({ Chi2Of(groups) :
           groups \in { Pool(obs, exp, thresh, 1,
                             [o |-> QZero, e |-> QZero, n |-> 0], << >>) } })

\* a float that may be non-finite
Fin(q) == [kind |-> "fin", v |-> q]
NaN == [kind |-> "nan", v |-> QZero]

\* the values 1 - rlgamma(dof / 2, chi2val / 2) may take: 1 when the statistic
\* is 0 with at least one degree of freedom, any float otherwise
PValues(dof, chi2val) ==
    IF dof >= 1 /\ chi2val = QZero THEN { Fin(QOne) }
    ELSE { NaN, Fin(Q(1, 10)), Fin(QOne) }

(***************************************************************************)
(* ChiSquareTest.run                                                       *)
(***************************************************************************)
\* HistogramAbsent as an unconditional tabulation
HistogramAlwaysAbsent(h) == TRUE

\* the two tests that decide whether run() tabulates
HistogramAbsent(h) == h = None
PdfAbsent(t) == t = None

\* sorted(enumerate(self.pdf), key = lambda x: x[1]): stable, increasing
Rank(t, i) ==
    1 + Cardinality({ j \in 1..Len(t) : QLt(t[j], t[i]) \/ (t[j] = t[i] /\ j < i) })
SortedIndex(t) ==
    Only({ Strict([k \in 1..Len(t) |-> CHOOSE i \in 1..Len(t) : rank[i] = k]) :
           rank \in { Strict([i \in 1..Len(t) |-> Rank(t, i)]) } })

\* ek.gather(source, index)
Gather(source, index) == Strict([k \in 1..Len(index) |-> source[index[k]]])

\* DofTooLow with the bound off by one
DofNegative(dof) == dof < 0

\* dof < 1
DofTooLow(dof) == dof < 1

\* ZeroExpected firing in both directions
ZeroEither(t, h) ==
    \E c \in 1..Len(t) : (t[c] = QZero /\ h[c] # QZero) \/ (h[c] = QZero /\ t[c] # QZero)

\* ek.any(ek.eq(pdf, 0) & ek.neq(histogram, 0))
ZeroExpected(t, h) == \E c \in 1..Len(t) : t[c] = QZero /\ h[c] # QZero

\* the Sidak correction 1 - (1 - significance_level) ** (1 / test_count)
RECURSIVE Pow(_, _)
Pow(b, n) == IF n = 0 THEN 1 ELSE b * Pow(b, n - 1)
IRoot(m, n) == CHOOSE r \in 0..m : Pow(r, n) = m
Sidak(sl, tc) ==
    LET q == QSub(QOne, sl)
    IN  QSub(QOne, Q(IRoot(q[1], tc), IRoot(q[2], tc)))

\* self.p_value < significance_level, not ek.isfinite(self.p_value)
Below(p, a) == p.kind = "fin" /\ QLt(p.v, a)
IsFinite(p) == p.kind = "fin"

\* Decide without the test for a non-finite p-value
DecideFinite(f, p, a) ==
    IF f THEN "False"
    ELSE IF Below(p, a) THEN "False"
    ELSE "True"

\* the return value of run()
Decide(f, p, a) ==
    IF f THEN "False"
    ELSE IF Below(p, a) \/ ~IsFinite(p) THEN "False"
    ELSE "True"

\* what run() works on: the arrays it tabulates, or the ones it finds
HistogramForRun(tabH, order) ==
    IF tabH THEN HistogramOf(domain, bounds, res, sample_count, sample_func, order)
    ELSE [histogram |-> histogram, xy |-> << >>, index |-> << >>, weights |-> << >>,
          logged |-> {}, fail |-> FALSE]
PdfForRun(tabP) ==
    IF tabP THEN PdfOf(pdf_func, domain, bounds, res, ires, sample_count)
    ELSE [pdf |-> pdf, pdf_sum |-> QZero, logged |-> {}, fail |-> FALSE]

\* the evaluation and the decision of run() on the two arrays
Evaluate(sl, tc, p, tabH, tabP, th, tp, hs, ts, c) ==
    LET low == DofTooLow(c.dof)
        zero == ZeroExpected(ts, hs)
        f2 == FlagAfter(FlagAfter(fail, th.fail), tp.fail)
        f3 == FlagAfter(FlagAfter(f2, low), zero)
        logged == th.logged \cup tp.logged
                     \cup (IF low THEN {"dof"} ELSE {})
                     \cup (IF zero THEN {"zero_expected"} ELSE {})
                     \cup (IF c.pooled_in > 0 THEN {"pooled"} ELSE {})
    IN  /\ p \in PValues(c.dof, c.chi2val)
        /\ histogram' = th.histogram
        /\ pdf' = tp.pdf
        /\ p_value' = p
        /\ fail' = f3
        /\ last' = [NoLast EXCEPT !.op = "run", !.logged = logged,
                       !.tab_hist = tabH, !.tab_pdf = tabP,
                       !.fail_before = fail, !.alpha = Sidak(sl, tc),
                       !.dof = c.dof, !.result = Decide(f3, p, Sidak(sl, tc))]

\* run(significance_level, test_count), for the arguments and the values of
\* rlgamma in the given sets
Run(runArgs, pValues, order) ==
    /\ pc = "ready"
    /\ \E tabH \in { HistogramAbsent(histogram) }, tabP \in { PdfAbsent(pdf) } :
       \E th \in { HistogramForRun(tabH, order) }, tp \in { PdfForRun(tabP) } :
       \E index \in { SortedIndex(tp.pdf) } :
       \E hs \in { Gather(th.histogram, index) }, ts \in { Gather(tp.pdf, index) } :
       \E c \in { Chi2(hs, ts, QInt(PoolingThreshold)) } :
       \E a \in runArgs, p \in pValues :
           Evaluate(a[1], a[2], p, tabH, tabP, th, tp, hs, ts, c)
    /\ UNCHANGED << pc, args, config, chi2_io >>

\* lines 259-265 of run() on their own: the evaluator on two sorted arrays
\* and the check of the degrees of freedom
Chi2Evaluate(obs, exp) ==
    /\ pc = "new"
    /\ \E c \in { Chi2(obs, exp, QInt(PoolingThreshold)) } :
           chi2_io' = [obs |-> obs, exp |-> exp, cells |-> c.cells, dof |-> c.dof,
                       dof_low |-> DofTooLow(c.dof)]
    /\ UNCHANGED << pc, args, config, pdf, histogram, p_value, fail, last >>

(***************************************************************************)
(* Inputs                                                                  *)
(***************************************************************************)
\* the domains a test is constructed with
Domains ==
    { LineDomain(QInt(-1), QOne),
      PlanarDomain(Box(QZero, QZero, QOne, QOne)),
      PlanarDomain(Box(QZero, QZero, QOne, QInt(2))),
      SphericalDomain }

\* the sample functions, given by what they return for the n variates drawn
WeightValues == { QInt(-1), QInt(2) }
SampleFuncs(dom, n) ==
    [points : [1..n -> SamplePoints(dom)],
     weights : [1..n -> WeightValues] \cup { << >> }]
\* unweighted sample functions that return the same point for every variate
ConstantSampleFuncs(dom, n) ==
    { [points |-> [i \in 1..n |-> q], weights |-> << >>] : q \in SamplePoints(dom) }

\* the density functions
PdfValues == { QInt(-1), QZero, QOne, QInt(2), QInt(3) }
PdfFuncs ==
    [kind : {"const"}, c : PdfValues] \cup [kind : {"step"}, c : {QOne, QInt(3)}]
UnitPdf == [kind |-> "const", c |-> QOne]
RunPdfFuncs == { UnitPdf, [kind |-> "const", c |-> QInt(3)], [kind |-> "step", c |-> QInt(3)] }

\* a step density is given to grids with at least two columns or rows on the
\* axis it depends on
Evaluable(f, dom, r) ==
    f.kind = "const" \/ (IF dom.kind = "sphere" THEN r.y >= 2 ELSE r.x >= 2)

\* significance level and test count of a run, with rational corrected levels
RunArgs == { << Q(1, 20), 1 >>, << Q(19, 100), 2 >>, << Q(3, 4), 2 >> }
AllPValues == { NaN, Fin(Q(1, 10)), Fin(QOne) }

\* sorted arrays of expected counts and the observed counts next to them
ExpValues == { 1, 4, 10 }
ExpArrays ==
    UNION { { e \in [1..n -> ExpValues] : \A i \in 1..(n - 1) : e[i] <= e[i + 1] }
            : n \in 1..MaxCells }
ToQ(e) == [i \in 1..Len(e) |-> QInt(e[i])]
ObsArrays(e) == { ToQ(e), [i \in 1..Len(e) |-> QZero] }

(***************************************************************************)
(* Specifications                                                          *)
(***************************************************************************)
ConstructNext ==
    /\ pc = "new"
    /\ \E dom \in Domains, sc \in 1..MaxSampleCount, r \in (-1)..MaxRes, ir \in 1..2 :
        \E sf \in ConstantSampleFuncs(dom, sc),
           pf \in RunPdfFuncs :
            /\ Evaluable(pf, dom, GridRes(r, dom))
            /\ Construct(dom, sf, pf, sc, r, ir)

TabulateHistogramNext ==
    /\ pc = "ready"
    /\ \E o \in Orders(sample_count) : TabulateHistogram(o)

RunNext ==
    /\ pc = "ready"
    /\ \E o \in IF HistogramAbsent(histogram) THEN Orders(sample_count)
                ELSE { [i \in 1..sample_count |-> i] } :
           Run(RunArgs, AllPValues, o)

Next == ConstructNext \/ TabulateHistogramNext \/ TabulatePdf \/ RunNext

Spec == Init /\ [][Next]_vars

\* tabulate_histogram under every sample function and every order
HistogramConstructNext ==
    /\ pc = "new"
    /\ \E dom \in Domains, sc \in 1..MaxSampleCount, r \in (-1)..MaxRes :
        \E sf \in SampleFuncs(dom, sc) : Construct(dom, sf, UnitPdf, sc, r, 2)

HistogramNext == HistogramConstructNext \/ TabulateHistogramNext

SpecHistogram == Init /\ [][HistogramNext]_vars

\* tabulate_pdf under every density function and every ires
PdfConstructNext ==
    /\ pc = "new"
    /\ \E dom \in Domains, sc \in 1..MaxSampleCount, r \in (-1)..MaxRes, ir \in 1..MaxIres :
        \E sf \in ConstantSampleFuncs(dom, sc), pf \in PdfFuncs :
            /\ sf.points[1] = CHOOSE q \in SamplePoints(dom) : TRUE
            /\ Evaluable(pf, dom, GridRes(r, dom))
            /\ Construct(dom, sf, pf, sc, r, ir)

PdfNext == PdfConstructNext \/ TabulatePdf

SpecPdf == Init /\ [][PdfNext]_vars

\* the evaluator on its own
Chi2Next == \E e \in ExpArrays : \E o \in ObsArrays(e) : Chi2Evaluate(o, ToQ(e))

SpecChi2 == Init /\ [][Chi2Next]_vars

(***************************************************************************)
(* Properties                                                              *)
(***************************************************************************)
FailureTags ==
    { "outside", "negative_weight", "weight_sum", "negative_pdf", "pdf_sum",
      "dof", "zero_expected" }

\* C1: run() returns False exactly when, at the decision, the failure flag
\* is set, the p-value is below the corrected significance level or the
\* p-value is not finite; it returns True in every other case.
C1_RunDecision ==
    last.op = "run" =>
        /\ last.result \in { "True", "False" }
        /\ last.result = "False" <=>
               \/ fail
               \/ (p_value.kind = "fin" /\ QLt(p_value.v, last.alpha))
               \/ p_value.kind # "fin"

\* a run that rejects on a non-finite p-value alone
C1_Witness ==
    /\ last.op = "run" /\ ~fail
    /\ p_value.kind = "nan" /\ last.result = "False"

\* some cell has expected count 0 and a nonzero observed count
Impossible == \E c \in 1..Len(pdf) : pdf[c] = QZero /\ histogram[c] # QZero
\* some cell has observed count 0 and a positive expected count
Unobserved == \E c \in 1..Len(pdf) : histogram[c] = QZero /\ QLt(QZero, pdf[c])

\* C2: a cell with expected count 0 and nonzero observed count makes run()
\* return False whatever the p-value and the level; without such a cell the
\* check does not fire, so that the flag is set by the other checks only.
C2_Structural ==
    last.op = "run" =>
        /\ Impossible => (fail /\ last.result = "False")
        /\ ~Impossible =>
               /\ "zero_expected" \notin last.logged
               /\ fail <=> (last.fail_before
                            \/ last.logged \cap (FailureTags \ {"zero_expected"}) # {})

\* an accepting run on arrays with an unobserved cell of positive expected count
C2_Witness ==
    /\ last.op = "run" /\ Unobserved /\ ~Impossible
    /\ ~fail /\ last.result = "True"

\* the weight of the samples whose flat index is c
CellWeight(index, weights, c) ==
    QSumSeq([i \in 1..Len(index) |-> IF index[i] = c THEN weights[i] ELSE QZero])

\* C3: whatever the order of the additions, each cell of the histogram holds
\* the sum of the weights of the samples mapped to it, and the histogram
\* adds up to the total weight.
C3_Scatter ==
    last.op = "tabulate_histogram" =>
        /\ \A c \in 0..(CellCount(res) - 1) :
               histogram[c + 1] = CellWeight(last.index, last.weights, c)
        /\ QSumSeq(histogram) = QSumSeq(last.weights)

\* two samples of different weight were added to the same cell
C3_Witness ==
    /\ last.op = "tabulate_histogram"
    /\ \E i, j \in 1..Len(last.index) :
           /\ i # j /\ last.index[i] = last.index[j]
           /\ last.weights[i] # last.weights[j]

OneToTen == ToQ(<< 1, 1, 1, 1, 10 >>)

Outside(q) ==
    LET ex == Extents(bounds)
        ex4 == [x |-> QDiv(ex.x, QInt(10000)), y |-> QDiv(ex.y, QInt(10000))]
    IN  \/ QLt(q.x, QSub(bounds.min.x, ex4.x)) \/ QLt(QAdd(bounds.max.x, ex4.x), q.x)
        \/ QLt(q.y, QSub(bounds.min.y, ex4.y)) \/ QLt(QAdd(bounds.max.y, ex4.y), q.y)

\* C6: tabulate_histogram flags a domain violation exactly when some mapped
\* sample lies outside the tolerance; either way every sample is added to a
\* cell with a flat index in [0, nx * ny).
C6_DomainCheck ==
    last.op = "tabulate_histogram" =>
        /\ "outside" \in last.logged <=> \E i \in 1..Len(last.xy) : Outside(last.xy[i])
        /\ "outside" \in last.logged => fail
        /\ last.logged = {} => fail = last.fail_before
        /\ Len(last.index) = sample_count
        /\ \A i \in 1..Len(last.index) :
               last.index[i] >= 0 /\ last.index[i] < res.x * res.y
        /\ Len(histogram) = res.x * res.y
        /\ QSumSeq(histogram) = QSumSeq(last.weights)

\* a sample beyond the bounds but within the tolerance was clamped into the
\* grid without a flag
C6_Witness ==
    /\ last.op = "tabulate_histogram" /\ ~fail
    /\ \E i \in 1..Len(last.xy) :
           QLt(last.xy[i].x, bounds.min.x) \/ QLt(bounds.max.x, last.xy[i].x)

\* C7: run() tabulates the histogram exactly when it is absent and the
\* density table exactly when it is absent; an array that is present is
\* left as it is, and both are present afterwards.
C7_Lazy ==
    [][last'.op = "run" =>
          /\ last'.tab_hist <=> (histogram = None)
          /\ last'.tab_pdf <=> (pdf = None)
          /\ histogram # None => histogram' = histogram
          /\ pdf # None => pdf' = pdf
          /\ histogram' # None /\ pdf' # None]_vars

\* a run that found the histogram and tabulated the density table only
C7_Witness == last.op = "run" /\ ~last.tab_hist /\ last.tab_pdf

\* C8 as stated: tabulate_pdf sets the flag whenever the stored table adds
\* up to more than 1.1 * sample_count.
C8_MassCheck ==
    last.op = "tabulate_pdf" =>
        (QLt(QMul(Q(11, 10), QInt(sample_count)), QSumSeq(pdf)) =>
             (fail /\ "pdf_sum" \in last.logged))

\* C9 as stated: the k-th node of column i is at
\* min.x + (i + k / (ires - 1)) * (extent.x / nx).
C9_Nodes ==
    last.op = "tabulate_pdf" =>
        \A i \in 1..res.x : \A k \in 1..ires :
            last.nodes[i][k] =
                QAdd(bounds.min.x,
                     QMul(QAdd(QInt(i - 1), Q(k - 1, ires - 1)),
                          QDiv(Extents(bounds).x, QInt(res.x))))

\* C10: the flag is False after construction, no operation clears it, and
\* a run() that starts with the flag set returns False.
C10_Sticky ==
    /\ [](last.op = "init" => ~fail)
    /\ [][(fail => fail') /\ ((fail /\ last'.op = "run") => last'.result = "False")]_vars

\* a run with the flag set beforehand and no violation of its own
C10_Witness ==
    /\ last.op = "run" /\ last.fail_before
    /\ last.logged \cap FailureTags = {}
    /\ last.result = "False"
====
